---- MODULE Spec2Model ----
(***************************************************************************)
(* A model of the Tailtown RAG server (src/mcp-server): the chunker of    *)
(* indexer.py as pure operators, and the indexer, the vector store and    *)
(* the request handlers of server.py as a state machine.                  *)
(*                                                                         *)
(* Text is a sequence of one-character strings, so that split and join    *)
(* are computed and not assumed.  A chunk's 'metadata' field and a        *)
(* FileRecord's 'modified' field are left out: nothing below reads them.  *)
(***************************************************************************)
EXTENDS Integers, Sequences, FiniteSets, TLC

VARIABLES
    chunk_size,     \* config['chunk_size']
    chunk_overlap,  \* config['chunk_overlap']
    content,        \* chunker run: the file content handed to _create_chunks
    out,            \* chunker run: whether _create_chunks has run, and the list it returned
    disk,           \* the project tree: path -> whether a file exists there, and its bytes
    nDisk,          \* how many times the tree has changed
    files_index,    \* indexer.files_index: rel_path -> FileRecord
    heap,           \* the list objects: list id -> list of chunks
    ixChunks,       \* indexer.chunks: a list id
    vsChunks,       \* vector_store.chunks: a list id
    vsIndex,        \* vector_store.index: None, or the FAISS index and its vectors
    arg,            \* per handler: the list passed to build/rebuild (0: none)
    pc,             \* per handler: where initialize() or a reindex request is
    loc,            \* per handler: the locals of index_all and build
    hist,           \* per handler: history of the pass (read by the properties only)
    req,            \* the search or list request running on the event loop
    nReq            \* how many search and list requests have been started

chunkerVars == <<content, out>>
configVars == <<chunk_size, chunk_overlap>>
diskVars == <<disk, nDisk>>
listVars == <<heap, ixChunks, vsChunks, arg>>
serverVars == <<disk, nDisk, files_index, heap, ixChunks, vsChunks, vsIndex, arg,
                pc, loc, hist, req, nReq>>
vars == <<chunk_size, chunk_overlap, content, out, disk, nDisk, files_index, heap,
          ixChunks, vsChunks, vsIndex, arg, pc, loc, hist, req, nReq>>

(***************************************************************************)
(* Bounds of the chunker runs.                                             *)
(***************************************************************************)
MaxLen == 5
MaxChunkSize == 4
MaxOverlap == 4

NL == "\n"
Alphabet == {"a", "b", NL}
NoResult == [done |-> FALSE, chunks |-> <<>>]

RECURSIVE TextsUpTo(_)
TextsUpTo(n) ==
    IF n = 0 THEN {<<>>}
    ELSE LET shorter == TextsUpTo(n - 1)
         IN shorter \cup {Append(t, c) : t \in {s \in shorter : Len(s) = n - 1}, c \in Alphabet}

(***************************************************************************)
(* indexer.py, _create_chunks                                              *)
(***************************************************************************)
RECURSIVE SplitFrom(_, _, _)
SplitFrom(s, i, cur) ==
    IF i > Len(s) THEN <<cur>>
    ELSE IF s[i] = NL THEN <<cur>> \o SplitFrom(s, i + 1, <<>>)
    ELSE SplitFrom(s, i + 1, Append(cur, s[i]))

\* content.split('\n'): never an empty list, '' splits to ['']
Split(s) == SplitFrom(s, 1, <<>>)

RECURSIVE JoinNoSep(_)
JoinNoSep(ls) ==
    IF ls = <<>> THEN <<>> ELSE ls[1] \o JoinNoSep(Tail(ls))

RECURSIVE Join(_)
\* '\n'.join(lines)
Join(ls) ==
    IF ls = <<>> THEN <<>>
    ELSE IF Len(ls) = 1 THEN ls[1]
    ELSE ls[1] \o <<NL>> \o Join(Tail(ls))

RECURSIVE SumLen(_)
SumLen(ls) ==
    IF ls = <<>> THEN 0 ELSE Len(ls[1]) + SumLen(Tail(ls))

RECURSIVE OverlapWalk(_, _, _, _, _)
\* the loop over reversed(current_chunk): i is the line looked at
OverlapWalk(cur, i, overlap_lines, overlap_size, overlap) ==
    IF i = 0 THEN overlap_lines
    ELSE IF overlap_size + Len(cur[i]) > overlap THEN overlap_lines
    ELSE OverlapWalk(cur, i - 1, <<cur[i]>> \o overlap_lines,
                     overlap_size + Len(cur[i]), overlap)

\* the overlap window seeded from the chunk just emitted
OverlapLines(current_chunk, overlap) ==
    OverlapWalk(current_chunk, Len(current_chunk), <<>>, 0, overlap)

\* the state of the loop: emitted chunk contents, working buffer, its size
ChunkerStart == [chunks |-> <<>>, current_chunk |-> <<>>, current_size |-> 0]

\* emit the buffer and seed the next one with the overlap window
EmitChunk(st, overlap) ==
    LET overlap_lines == OverlapLines(st.current_chunk, overlap)
    IN [chunks |-> Append(st.chunks, Join(st.current_chunk)),
        current_chunk |-> overlap_lines,
        current_size |-> SumLen(overlap_lines)]

\* the iteration without 'and current_chunk': an empty buffer is emitted too
LineStepEmitsEmpty(st, line, size, overlap) ==
    LET s1 == IF st.current_size + Len(line) > size
              THEN EmitChunk(st, overlap)
              ELSE st
    IN [s1 EXCEPT !.current_chunk = Append(@, line),
                  !.current_size = @ + Len(line)]

\* one iteration of 'for line in lines'
LineStep(st, line, size, overlap) ==
    LET s1 == IF st.current_size + Len(line) > size /\ st.current_chunk # <<>>
              THEN EmitChunk(st, overlap)
              ELSE st
    IN [s1 EXCEPT !.current_chunk = Append(@, line),
                  !.current_size = @ + Len(line)]

RECURSIVE LineLoop(_, _, _, _, _)
LineLoop(st, lines, i, size, overlap) ==
    IF i > Len(lines) THEN st
    ELSE LineLoop(LineStep(st, lines[i], size, overlap), lines, i + 1, size, overlap)

FinalFlushDropped(st) == st.chunks

\* 'if current_chunk:' after the loop
FinalFlush(st) ==
    IF st.current_chunk # <<>> THEN Append(st.chunks, Join(st.current_chunk))
    ELSE st.chunks

\* the contents of the chunks of a file, in order
ChunkContents(text, size, overlap) ==
    FinalFlush(LineLoop(ChunkerStart, Split(text), 1, size, overlap))

(***************************************************************************)
(* Bounds of the server runs.                                              *)
(***************************************************************************)
MaxReindex == 2       \* reindex requests (each may overlap the ones before)
MaxDiskChanges == 1   \* changes of the project tree
MaxRequests == 1      \* search and list requests
CfgChunkSize == 1     \* the server runs' config['chunk_size']
CfgChunkOverlap == 0  \* the server runs' config['chunk_overlap']

(***************************************************************************)
(* The project tree and the configuration of the server runs.  A path is   *)
(* a record of its directory, stem and suffix; a glob pattern names a      *)
(* directory and a suffix, "*" for any.                                     *)
(***************************************************************************)
PathA == [dir |-> "src", stem |-> "a", suffix |-> ".md"]
PathB == [dir |-> "src", stem |-> "b", suffix |-> ".py"]
PathC == [dir |-> "node_modules", stem |-> "c", suffix |-> ".md"]
Paths == {PathA, PathB, PathC}
\* the order in which glob lists them
PathOrder == <<PathC, PathA, PathB>>

\* what the tree holds at a path
Absent == [exists |-> FALSE, bytes |-> <<>>]
File(bytes) == [exists |-> TRUE, bytes |-> bytes]
BadByte == "xff"
BytesA == <<"a", NL, "b">>
BytesB == <<"b", "b">>
BytesBinary == <<BadByte, "b">>
BytesC == <<"a">>
\* what a path may hold: PathC never changes, PathB may stop being text
MayHold(p) ==
    IF p = PathA THEN {Absent, File(BytesA)}
    ELSE IF p = PathB THEN {Absent, File(BytesB), File(BytesBinary)}
    ELSE {File(BytesC)}
DiskStart ==
    [p \in Paths |-> File(IF p = PathA THEN BytesA ELSE IF p = PathB THEN BytesB ELSE BytesC)]

\* config['index_patterns'], flattened in iteration order: (file_type, pattern)
IndexPatterns ==
    << [file_type |-> "documentation", pattern |-> [dir |-> "*", suffix |-> ".md"]],
       [file_type |-> "code", pattern |-> [dir |-> "src", suffix |-> "*"]] >>
FileTypes == {"documentation", "code"}
\* config['exclude_patterns'] with the wildcards stripped
ExcludeFragments == {"node_modules"}

Range(f) == {f[x] : x \in DOMAIN f}

Matches(pattern, p) ==
    /\ pattern.dir \in {"*", p.dir}
    /\ pattern.suffix \in {"*", p.suffix}

\* _find_files: the regular files the pattern matches now
FindFiles(pattern) ==
    SelectSeq(PathOrder, LAMBDA p : disk[p].exists /\ Matches(pattern, p))

\* _should_exclude: a fragment occurs in the relative path
ShouldExclude(p) == p.dir \in ExcludeFragments

\* open(..., encoding='utf-8').read() raises UnicodeDecodeError
Decodable(bytes) == \A i \in 1..Len(bytes) : bytes[i] # BadByte

\* _detect_language
DetectLanguage(p) ==
    CASE p.suffix \in {".ts", ".tsx"} -> "typescript"
      [] p.suffix \in {".js", ".jsx"} -> "javascript"
      [] p.suffix = ".py" -> "python"
      [] p.suffix = ".md" -> "markdown"
      [] p.suffix = ".json" -> "json"
      [] p.suffix \in {".yml", ".yaml"} -> "yaml"
      [] p.suffix = ".prisma" -> "prisma"
      [] OTHER -> ""

\* hashlib.md5(chunk_content.encode()).hexdigest(): a function of the content
Md5(text) == <<"md5", text>>

\* the dict _create_chunks appends for one chunk
MakeChunk(text, file_path, file_type) ==
    [content |-> text, file_path |-> file_path, file_type |-> file_type,
     chunk_id |-> Md5(text), language |-> DetectLanguage(file_path)]

\* _create_chunks(content, file_path, file_type)
CreateChunks(text, file_path, file_type) ==
    LET texts == ChunkContents(text, chunk_size, chunk_overlap)
    IN [k \in 1..Len(texts) |-> MakeChunk(texts[k], file_path, file_type)]

\* the FileRecord _index_file stores
FileRecord(p, file_type, text) ==
    [path |-> p, type |-> file_type, size |-> Len(text), language |-> DetectLanguage(p)]

\* get_indexed_files(filter_type)
GetIndexedFiles(filter_type) ==
    IF filter_type = "all" THEN Range(files_index)
    ELSE {info \in Range(files_index) : info.type = filter_type}

(***************************************************************************)
(* Handlers.  Handler 0 is initialize(); handlers 1..MaxReindex are the    *)
(* reindex requests, in the order they arrive.                              *)
(***************************************************************************)
Handlers == 0..MaxReindex
Reindexers == 1..MaxReindex
Ready == pc[0] = "done"
InFlight(h) == pc[h] \notin {"idle", "done", "failed", "crashed"}
\* the handlers of the event loop run one at a time, to their next await
LoopFree == req.op = "none"

\* self.index: None, or a faiss.IndexFlatIP holding vectors
NoIndex == [is_none |-> TRUE, vectors |-> <<>>]
IndexFlatIP == [is_none |-> FALSE, vectors |-> <<>>]
NoReq == [op |-> "none", pc |-> "idle", query |-> <<>>, top_k |-> 0, filter_type |-> "all",
          hits |-> <<>>, pos |-> 0, results |-> <<>>, outcome |-> "none", listed |-> {}]

StatsStart == [files_indexed |-> 0, chunks_created |-> 0, total_size |-> 0,
               by_type |-> [t \in FileTypes |-> 0]]
LocStart == [pat |-> 0, files |-> <<>>, text |-> <<>>, new |-> <<>>,
             stats |-> StatsStart, emb |-> <<>>]
\* what a pass did: the registry's paths before it, the files it read, stored and
\* failed on, whether another reindex overlapped it, the vectors its rebuild
\* discarded, and whether its build was given chunks
HistStart == [before |-> {}, read |-> {}, stored |-> {}, failed |-> {},
              overlapped |-> FALSE, oldN |-> 0, given |-> "none"]
EmptyIndex == [p \in {} |-> 0]

(***************************************************************************)
(* List objects.  'self.chunks = chunks' shares the list, it does not copy *)
(* it, so the lists live in a heap and the fields hold list ids.  After    *)
(* every step the ids are renamed in the order ixChunks, vsChunks, arg and *)
(* the lists nothing refers to are dropped.                                 *)
(***************************************************************************)
ListIds == 1..(MaxReindex + 4)
RefSeq(ix, vs, ar) == <<ix, vs>> \o [i \in 1..(MaxReindex + 1) |-> ar[i - 1]]
FirstPos(s, x) == CHOOSE i \in 1..Len(s) : s[i] = x /\ \A j \in 1..(i - 1) : s[j] # x
RankOf(s, x) == IF x = 0 THEN 0 ELSE Cardinality({s[j] : j \in 1..FirstPos(s, x)} \ {0})
FreshList == CHOOSE i \in ListIds : i \notin Range(RefSeq(ixChunks, vsChunks, arg))

SetLists(ix, vs, ar, hp) ==
    LET s == RefSeq(ix, vs, ar)
        live == Range(s) \ {0}
    IN /\ ixChunks' = RankOf(s, ix)
       /\ vsChunks' = RankOf(s, vs)
       /\ arg' = [h \in Handlers |-> RankOf(s, ar[h])]
       /\ heap' = [i \in ListIds |->
                     IF \E x \in live : RankOf(s, x) = i
                     THEN hp[CHOOSE x \in live : RankOf(s, x) = i]
                     ELSE <<>>]

(***************************************************************************)
(* server.py, call_tool "reindex"; indexer.py, reindex and index_all       *)
(***************************************************************************)
\* a reindex request arrives: asyncio.to_thread(indexer.reindex)
ReindexStart(h) ==
    /\ h \in Reindexers /\ pc[h] = "idle"
    /\ Ready /\ LoopFree
    /\ h = 1 \/ pc[h - 1] # "idle"
    /\ pc' = [pc EXCEPT ![h] = "clear_chunks"]
    /\ LET others == {g \in Reindexers : g # h /\ InFlight(g)}
           \* the last pass that ended: the generation a request can still see
           ended == {g \in Handlers : g < h /\ ~InFlight(g)}
           last == CHOOSE g \in ended : \A k \in ended : k <= g
       IN hist' = [g \in Handlers |->
                     IF g = h THEN [HistStart EXCEPT !.before = DOMAIN files_index,
                                                     !.overlapped = others # {}]
                     ELSE IF g \in others THEN [hist[g] EXCEPT !.overlapped = TRUE]
                     ELSE IF g = last THEN hist[g]
                     ELSE HistStart]
    /\ loc' = [g \in Handlers |-> IF InFlight(g) THEN loc[g] ELSE LocStart]
    /\ UNCHANGED <<configVars, chunkerVars, diskVars, files_index, listVars, vsIndex, req, nReq>>

\* reindex: self.chunks = []
ClearChunks(h) ==
    /\ pc[h] = "clear_chunks"
    /\ SetLists(FreshList, vsChunks, arg, heap)
    /\ pc' = [pc EXCEPT ![h] = "clear_files"]
    /\ UNCHANGED <<configVars, chunkerVars, diskVars, files_index, vsIndex, loc, hist, req, nReq>>

\* reindex without 'self.files_index = {}'
ClearFilesKept(h) ==
    /\ pc[h] = "clear_files"
    /\ loc' = [loc EXCEPT ![h] = LocStart]
    /\ pc' = [pc EXCEPT ![h] = "glob"]
    /\ UNCHANGED <<configVars, chunkerVars, diskVars, files_index, listVars, vsIndex, hist, req, nReq>>

\* reindex: self.files_index = {}, and index_all's stats = {...}
ClearFiles(h) ==
    /\ pc[h] = "clear_files"
    /\ files_index' = EmptyIndex
    /\ loc' = [loc EXCEPT ![h] = LocStart]
    /\ pc' = [pc EXCEPT ![h] = "glob"]
    /\ UNCHANGED <<configVars, chunkerVars, diskVars, listVars, vsIndex, hist, req, nReq>>

AfterFile(files) == IF files = <<>> THEN "glob" ELSE "file"
\* the file the loop is at and the file_type of its pattern group
CurFile(h) == Head(loc[h].files)
CurType(h) == IndexPatterns[loc[h].pat].file_type

\* index_all: the next pattern's files = self._find_files(pattern), or return stats
Glob(h) ==
    /\ pc[h] = "glob"
    /\ IF loc[h].pat = Len(IndexPatterns)
       THEN /\ pc' = [pc EXCEPT ![h] = "indexed"]
            /\ loc' = loc
       ELSE LET files == FindFiles(IndexPatterns[loc[h].pat + 1].pattern)
            IN /\ loc' = [loc EXCEPT ![h].pat = @ + 1, ![h].files = files]
               /\ pc' = [pc EXCEPT ![h] = AfterFile(files)]
    /\ UNCHANGED <<configVars, chunkerVars, diskVars, files_index, listVars, vsIndex, hist, req, nReq>>

\* the file is dropped from the loop: 'continue', or the except of index_all
SkipFile(h) ==
    /\ loc' = [loc EXCEPT ![h].files = Tail(@), ![h].text = <<>>, ![h].new = <<>>]
    /\ pc' = [pc EXCEPT ![h] = AfterFile(Tail(loc[h].files))]

\* _index_file called outside the try of index_all: a failed read ends the pass
OpenFileUncaught(h) ==
    /\ pc[h] = "file"
    /\ IF ShouldExclude(CurFile(h))
       THEN SkipFile(h) /\ hist' = hist
       ELSE IF ~disk[CurFile(h)].exists
       THEN /\ loc' = loc
            /\ pc' = [pc EXCEPT ![h] = "raised"]
            /\ hist' = [hist EXCEPT ![h].failed = @ \cup {CurFile(h)}]
       ELSE IF ~Decodable(disk[CurFile(h)].bytes)
       THEN /\ loc' = [loc EXCEPT ![h].new = <<>>]
            /\ pc' = [pc EXCEPT ![h] = "extend"]
            /\ hist' = [hist EXCEPT ![h].failed = @ \cup {CurFile(h)}]
       ELSE /\ loc' = [loc EXCEPT ![h].text = disk[CurFile(h)].bytes]
            /\ pc' = [pc EXCEPT ![h] = "store"]
            /\ hist' = [hist EXCEPT ![h].read = @ \cup {CurFile(h)}]
    /\ UNCHANGED <<configVars, chunkerVars, diskVars, files_index, listVars, vsIndex, req, nReq>>

\* index_all: _should_exclude, then _index_file opens and reads the file; a file
\* that is gone raises and the except of index_all drops it, a file that does not
\* decode makes _index_file return []
OpenFile(h) ==
    /\ pc[h] = "file"
    /\ IF ShouldExclude(CurFile(h))
       THEN SkipFile(h) /\ hist' = hist
       ELSE IF ~disk[CurFile(h)].exists
       THEN SkipFile(h) /\ hist' = [hist EXCEPT ![h].failed = @ \cup {CurFile(h)}]
       ELSE IF ~Decodable(disk[CurFile(h)].bytes)
       THEN /\ loc' = [loc EXCEPT ![h].new = <<>>]
            /\ pc' = [pc EXCEPT ![h] = "extend"]
            /\ hist' = [hist EXCEPT ![h].failed = @ \cup {CurFile(h)}]
       ELSE /\ loc' = [loc EXCEPT ![h].text = disk[CurFile(h)].bytes]
            /\ pc' = [pc EXCEPT ![h] = "store"]
            /\ hist' = [hist EXCEPT ![h].read = @ \cup {CurFile(h)}]
    /\ UNCHANGED <<configVars, chunkerVars, diskVars, files_index, listVars, vsIndex, req, nReq>>

\* _index_file: getmtime, self.files_index[rel_path] = {...}, _create_chunks
StoreFile(h) ==
    /\ pc[h] = "store"
    /\ IF ~disk[CurFile(h)].exists
       THEN /\ SkipFile(h)
            /\ files_index' = files_index
            /\ hist' = [hist EXCEPT ![h].failed = @ \cup {CurFile(h)}]
       ELSE /\ files_index' = (CurFile(h) :> FileRecord(CurFile(h), CurType(h), loc[h].text))
                               @@ files_index
            /\ loc' = [loc EXCEPT ![h].new = CreateChunks(loc[h].text, CurFile(h), CurType(h))]
            /\ pc' = [pc EXCEPT ![h] = "extend"]
            /\ hist' = [hist EXCEPT ![h].stored = @ \cup {CurFile(h)}]
    /\ UNCHANGED <<configVars, chunkerVars, diskVars, listVars, vsIndex, req, nReq>>

\* the stats after self.chunks.extend(chunks): getsize raises for a file that is gone
CountFile(stats, n, file_type, file) ==
    LET counted == [stats EXCEPT !.files_indexed = @ + 1, !.chunks_created = @ + n]
    IN IF ~file.exists THEN counted
       ELSE [counted EXCEPT !.total_size = @ + Len(file.bytes), !.by_type[file_type] = @ + 1]

\* index_all: self.chunks.extend(chunks) and the four stats lines
Extend(h) ==
    /\ pc[h] = "extend"
    /\ heap' = [heap EXCEPT ![ixChunks] = @ \o loc[h].new]
    /\ loc' = [loc EXCEPT ![h].files = Tail(@), ![h].text = <<>>, ![h].new = <<>>,
                          ![h].stats = CountFile(@, Len(loc[h].new), CurType(h), disk[CurFile(h)])]
    /\ pc' = [pc EXCEPT ![h] = AfterFile(Tail(loc[h].files))]
    /\ UNCHANGED <<configVars, chunkerVars, diskVars, files_index, ixChunks, vsChunks, arg,
                   vsIndex, hist, req, nReq>>

(***************************************************************************)
(* vector_store.py.  The embedding model and the FAISS index are opaque:   *)
(* a vector is modelled as the text's letter counts, the similarity as the *)
(* inner product, and index.search as the exact k best, nearest first.     *)
(***************************************************************************)
Letters == Alphabet \ {NL}
Embed(text) == [c \in Letters |-> Cardinality({i \in 1..Len(text) : text[i] = c})]

RECURSIVE SumOver(_, _)
SumOver(f, S) ==
    IF S = {} THEN 0 ELSE LET x == CHOOSE y \in S : TRUE IN f[x] + SumOver(f, S \ {x})
InnerProduct(u, v) == SumOver([c \in Letters |-> u[c] * v[c]], Letters)

\* self.index.ntotal, 0 when there is no index
NumVectors == IF vsIndex = NoIndex THEN 0 ELSE Len(vsIndex.vectors)

RECURSIVE Nearest(_, _, _, _)
\* the k nearest of the positions in S, nearest first (ties: lower position first)
Nearest(vectors, qv, S, k) ==
    IF k = 0 \/ S = {} THEN <<>>
    ELSE LET best == CHOOSE i \in S : \A j \in S :
                        \/ InnerProduct(qv, vectors[i]) > InnerProduct(qv, vectors[j])
                        \/ /\ InnerProduct(qv, vectors[i]) = InnerProduct(qv, vectors[j])
                           /\ i <= j
         IN <<[score |-> InnerProduct(qv, vectors[best]), idx |-> best]>>
            \o Nearest(vectors, qv, S \ {best}, k - 1)

\* an index.search that hands back every vector, whatever k is
IndexSearchAll(vectors, qv, k) == Nearest(vectors, qv, 1..Len(vectors), Len(vectors))

\* index.search(query_embedding, k): (score, position) pairs
IndexSearch(vectors, qv, k) == Nearest(vectors, qv, 1..Len(vectors), k)

Min(a, b) == IF a <= b THEN a ELSE b
OverFetch == 3

\* lines 93-94 of initialize(): VectorStore(config), then build(get_all_chunks())
BootVectorStore ==
    /\ pc[0] = "indexed"
    /\ vsIndex' = NoIndex
    /\ SetLists(ixChunks, FreshList, [arg EXCEPT ![0] = ixChunks], heap)
    /\ pc' = [pc EXCEPT ![0] = "build"]
    /\ UNCHANGED <<configVars, chunkerVars, diskVars, files_index, loc, hist, req, nReq>>

\* call_tool: to_thread(indexer.reindex) is done; to_thread(vector_store.rebuild,
\* indexer.get_all_chunks()) evaluates its argument on the event loop
GetChunks(h) ==
    /\ h \in Reindexers /\ pc[h] = "indexed" /\ LoopFree
    /\ SetLists(ixChunks, vsChunks, [arg EXCEPT ![h] = ixChunks], heap)
    /\ pc' = [pc EXCEPT ![h] = "rb_index"]
    /\ UNCHANGED <<configVars, chunkerVars, diskVars, files_index, vsIndex, loc, hist, req, nReq>>

\* rebuild: self.index = None
RebuildIndex(h) ==
    /\ pc[h] = "rb_index"
    /\ vsIndex' = NoIndex
    /\ hist' = [hist EXCEPT ![h].oldN = NumVectors]
    /\ pc' = [pc EXCEPT ![h] = "rb_chunks"]
    /\ UNCHANGED <<configVars, chunkerVars, diskVars, files_index, listVars, loc, req, nReq>>

\* rebuild: self.chunks = []
RebuildChunks(h) ==
    /\ pc[h] = "rb_chunks"
    /\ SetLists(ixChunks, FreshList, arg, heap)
    /\ pc' = [pc EXCEPT ![h] = "build"]
    /\ UNCHANGED <<configVars, chunkerVars, diskVars, files_index, vsIndex, loc, hist, req, nReq>>

\* build: 'if not chunks: return', else self.chunks = chunks
BuildChunks(h) ==
    /\ pc[h] = "build"
    /\ IF heap[arg[h]] = <<>>
       THEN /\ SetLists(ixChunks, vsChunks, [arg EXCEPT ![h] = 0], heap)
            /\ pc' = [pc EXCEPT ![h] = "built"]
       ELSE /\ SetLists(ixChunks, arg[h], arg, heap)
            /\ pc' = [pc EXCEPT ![h] = "encode"]
    /\ hist' = [hist EXCEPT ![h].given = IF heap[arg[h]] = <<>> THEN "empty" ELSE "chunks"]
    /\ UNCHANGED <<configVars, chunkerVars, diskVars, files_index, vsIndex, loc, req, nReq>>

\* build: texts = [...], embeddings = self.model.encode(texts)
Encode(h) ==
    /\ pc[h] = "encode"
    /\ loc' = [loc EXCEPT ![h].emb = [i \in 1..Len(heap[arg[h]]) |-> Embed(heap[arg[h]][i].content)]]
    /\ pc' = [pc EXCEPT ![h] = "new_index"]
    /\ UNCHANGED <<configVars, chunkerVars, diskVars, files_index, listVars, vsIndex, hist, req, nReq>>

\* build: self.model.encode raises (the embedding fault)
EncodeFault(h) ==
    /\ pc[h] = "encode"
    /\ SetLists(ixChunks, vsChunks, [arg EXCEPT ![h] = 0], heap)
    /\ pc' = [pc EXCEPT ![h] = "raised"]
    /\ UNCHANGED <<configVars, chunkerVars, diskVars, files_index, vsIndex, loc, hist, req, nReq>>

\* build: self.index = faiss.IndexFlatIP(self.dimension)
NewIndex(h) ==
    /\ pc[h] = "new_index"
    /\ vsIndex' = IndexFlatIP
    /\ pc' = [pc EXCEPT ![h] = "add"]
    /\ UNCHANGED <<configVars, chunkerVars, diskVars, files_index, listVars, loc, hist, req, nReq>>

\* build: self.index.add(embeddings); AttributeError when self.index is None again
Add(h) ==
    /\ pc[h] = "add"
    /\ IF vsIndex = NoIndex
       THEN /\ vsIndex' = vsIndex
            /\ pc' = [pc EXCEPT ![h] = "raised"]
       ELSE /\ vsIndex' = [vsIndex EXCEPT !.vectors = @ \o loc[h].emb]
            /\ pc' = [pc EXCEPT ![h] = "built"]
    /\ loc' = [loc EXCEPT ![h].emb = <<>>]
    /\ SetLists(ixChunks, vsChunks, [arg EXCEPT ![h] = 0], heap)
    /\ UNCHANGED <<configVars, chunkerVars, diskVars, files_index, hist, req, nReq>>

\* call_tool returns "Reindex Complete"; initialize() logs that the server is ready
Respond(h) ==
    /\ pc[h] = "built"
    /\ h = 0 \/ LoopFree
    /\ pc' = [pc EXCEPT ![h] = "done"]
    /\ UNCHANGED <<configVars, chunkerVars, diskVars, files_index, listVars, vsIndex, loc, hist, req, nReq>>

\* call_tool's 'except Exception' returns the error text; initialize() has no except
Fail(h) ==
    /\ pc[h] = "raised"
    /\ h = 0 \/ LoopFree
    /\ pc' = [pc EXCEPT ![h] = IF h = 0 THEN "crashed" ELSE "failed"]
    /\ UNCHANGED <<configVars, chunkerVars, diskVars, files_index, listVars, vsIndex, loc, hist, req, nReq>>

(***************************************************************************)
(* server.py, call_tool "search_codebase" and "list_indexed_files".  Both  *)
(* run on the event loop without an await; the threads of reindex run      *)
(* between their statements.                                                *)
(***************************************************************************)
Queries == {<<"a">>}
TopKs == {1}
SearchFilters == {"all", "code"}
ListFilters == {"all", "documentation"}

\* a search request arrives: vector_store.search(query, top_k, filter_type)
SearchStart(q, k, f) ==
    /\ Ready /\ LoopFree /\ nReq < MaxRequests
    /\ req' = [NoReq EXCEPT !.op = "search", !.pc = "check", !.query = q,
                            !.top_k = k, !.filter_type = f]
    /\ nReq' = nReq + 1
    /\ UNCHANGED <<configVars, chunkerVars, diskVars, files_index, listVars, vsIndex, pc, loc, hist>>

\* search without its first three lines
SearchCheckSkipped ==
    /\ req.op = "search" /\ req.pc = "check"
    /\ req' = [req EXCEPT !.pc = "query"]
    /\ UNCHANGED <<configVars, chunkerVars, diskVars, files_index, listVars, vsIndex, pc, loc,
                   hist, nReq>>

\* search: 'if self.index is None or self.index.ntotal == 0: return []'
SearchCheck ==
    /\ req.op = "search" /\ req.pc = "check"
    /\ req' = IF NumVectors = 0
              THEN [req EXCEPT !.pc = "done", !.outcome = "empty"]
              ELSE [req EXCEPT !.pc = "query"]
    /\ UNCHANGED <<configVars, chunkerVars, diskVars, files_index, listVars, vsIndex, pc, loc,
                   hist, nReq>>

\* search: scores, indices = self.index.search(q, min(top_k * 3, self.index.ntotal));
\* AttributeError when self.index is None by now
SearchQuery ==
    /\ req.op = "search" /\ req.pc = "query"
    /\ vsIndex = NoIndex \/ Len(vsIndex.vectors) > 0
    /\ req' = IF vsIndex = NoIndex
              THEN [req EXCEPT !.pc = "done", !.outcome = "error"]
              ELSE [req EXCEPT !.pc = "loop", !.pos = 1,
                               !.hits = IndexSearch(vsIndex.vectors, Embed(req.query),
                                                    Min(req.top_k * OverFetch, NumVectors))]
    /\ UNCHANGED <<configVars, chunkerVars, diskVars, files_index, listVars, vsIndex, pc, loc,
                   hist, nReq>>

\* search: the index is the new, still empty one, so k = 0: FAISS refuses k = 0 or
\* returns no hit, depending on its version
SearchQueryNoVectors(o) ==
    /\ req.op = "search" /\ req.pc = "query"
    /\ vsIndex # NoIndex /\ Len(vsIndex.vectors) = 0
    /\ req' = [req EXCEPT !.pc = "done", !.outcome = o]
    /\ UNCHANGED <<configVars, chunkerVars, diskVars, files_index, listVars, vsIndex, pc, loc,
                   hist, nReq>>

\* {**chunk, 'score': float(score)}
WithScore(c, s) ==
    [content |-> c.content, file_path |-> c.file_path, file_type |-> c.file_type,
     chunk_id |-> c.chunk_id, language |-> c.language, score |-> s]

\* after one iteration, without 'if len(results) >= top_k: break'
AfterHitNoBreak(r, results) ==
    IF r.pos + 1 > Len(r.hits)
    THEN [r EXCEPT !.results = results, !.pc = "done",
                   !.outcome = IF results = <<>> THEN "empty" ELSE "results"]
    ELSE [r EXCEPT !.results = results, !.pos = @ + 1]

\* after one iteration: 'break', the end of the hits, or the next hit
AfterHit(r, results) ==
    IF Len(results) >= r.top_k \/ r.pos + 1 > Len(r.hits)
    THEN [r EXCEPT !.results = results, !.pc = "done",
                   !.outcome = IF results = <<>> THEN "empty" ELSE "results"]
    ELSE [r EXCEPT !.results = results, !.pos = @ + 1]

\* search: one iteration of 'for score, idx in zip(scores[0], indices[0])'
SearchHit ==
    /\ req.op = "search" /\ req.pc = "loop"
    /\ LET hit == req.hits[req.pos]
           chunks == heap[vsChunks]
       IN req' = IF hit.idx > Len(chunks) THEN AfterHit(req, req.results)
                 ELSE IF req.filter_type # "all" /\ chunks[hit.idx].file_type # req.filter_type
                 THEN AfterHit(req, req.results)
                 ELSE AfterHit(req, Append(req.results, WithScore(chunks[hit.idx], hit.score)))
    /\ UNCHANGED <<configVars, chunkerVars, diskVars, files_index, listVars, vsIndex, pc, loc,
                   hist, nReq>>

\* a list request: files = indexer.get_indexed_files(filter_type)
ListFiles(f) ==
    /\ Ready /\ LoopFree /\ nReq < MaxRequests
    /\ req' = [NoReq EXCEPT !.op = "list", !.pc = "done", !.filter_type = f,
                            !.listed = GetIndexedFiles(f), !.outcome = "listed"]
    /\ nReq' = nReq + 1
    /\ UNCHANGED <<configVars, chunkerVars, diskVars, files_index, listVars, vsIndex, pc, loc, hist>>

\* call_tool formats the response of a search or a list and returns it
Return ==
    /\ req.pc = "done"
    /\ req' = NoReq
    /\ UNCHANGED <<configVars, chunkerVars, diskVars, files_index, listVars, vsIndex, pc, loc,
                   hist, nReq>>

\* the project tree changes under the running server
DiskChange(p, file) ==
    /\ nDisk < MaxDiskChanges
    /\ pc[0] # "crashed"
    /\ file \in MayHold(p) \ {disk[p]}
    /\ disk' = [disk EXCEPT ![p] = file]
    /\ nDisk' = nDisk + 1
    /\ UNCHANGED <<configVars, chunkerVars, files_index, listVars, vsIndex, pc, loc, hist, req, nReq>>

\* the src directory is moved away: every file under it is gone at once
RemoveSrc ==
    /\ nDisk < MaxDiskChanges
    /\ pc[0] # "crashed"
    /\ \E p \in Paths : p.dir = "src" /\ disk[p].exists
    /\ disk' = [p \in Paths |-> IF p.dir = "src" THEN Absent ELSE disk[p]]
    /\ nDisk' = nDisk + 1
    /\ UNCHANGED <<configVars, chunkerVars, files_index, listVars, vsIndex, pc, loc, hist, req, nReq>>

(***************************************************************************)
(* The server: initialize(), then requests.                                 *)
(***************************************************************************)
\* the state after TailtownIndexer(config), before index_all
ServerStart ==
    /\ nDisk = 0
    /\ files_index = EmptyIndex
    /\ heap = [i \in ListIds |-> <<>>]
    /\ ixChunks = 1
    /\ vsChunks = 2
    /\ vsIndex = NoIndex
    /\ arg = [h \in Handlers |-> 0]
    /\ pc = [h \in Handlers |-> IF h = 0 THEN "glob" ELSE "idle"]
    /\ loc = [h \in Handlers |-> LocStart]
    /\ hist = [h \in Handlers |-> HistStart]
    /\ req = NoReq
    /\ nReq = 0

ServerInit == disk = DiskStart /\ ServerStart

Init ==
    /\ chunk_size = CfgChunkSize
    /\ chunk_overlap = CfgChunkOverlap
    /\ content = <<>>
    /\ out = NoResult
    /\ ServerInit

Worker(h) ==
    \/ ClearChunks(h) \/ ClearFiles(h) \/ Glob(h) \/ OpenFile(h) \/ StoreFile(h) \/ Extend(h)
    \/ RebuildIndex(h) \/ RebuildChunks(h) \/ BuildChunks(h)
    \/ Encode(h) \/ EncodeFault(h) \/ NewIndex(h) \/ Add(h)

Requests ==
    \/ \E q \in Queries, k \in TopKs, f \in SearchFilters : SearchStart(q, k, f)
    \/ SearchCheck \/ SearchQuery \/ SearchHit
    \/ \E o \in {"error", "empty"} : SearchQueryNoVectors(o)
    \/ \E f \in ListFilters : ListFiles(f)
    \/ Return

Environment ==
    \/ \E p \in Paths : \E file \in MayHold(p) : DiskChange(p, file)
    \/ RemoveSrc

NoneInFlight == \A g \in Reindexers : ~InFlight(g)

\* a client that sends a reindex request only after the one before was answered
ReindexAfterAnswer(h) == NoneInFlight /\ ReindexStart(h)

HandlerStep(h) == Worker(h) \/ GetChunks(h) \/ Respond(h) \/ Fail(h)

\* The server under a client whose reindex requests do not overlap, while the
\* project tree changes and searches and lists arrive at any time.
Next ==
    \/ \E h \in Handlers : HandlerStep(h) \/ ReindexAfterAnswer(h)
    \/ BootVectorStore
    \/ Requests
    \/ Environment

Spec == Init /\ [][Next]_vars

\* The server under a client whose reindex requests overlap, on a project tree
\* that does not change.
NextOverlap ==
    \/ \E h \in Handlers : HandlerStep(h) \/ ReindexStart(h)
    \/ BootVectorStore
    \/ Requests

SpecOverlap == Init /\ [][NextOverlap]_vars

(***************************************************************************)
(* The server from its start to its first answers: initialize() on any of  *)
(* the trees, while the tree changes, then search and list requests with   *)
(* every argument, and no reindex request.                                  *)
(***************************************************************************)
Trees == {t \in [Paths -> UNION {MayHold(p) : p \in Paths}] : \A p \in Paths : t[p] \in MayHold(p)}
WideQueries == {<<"a">>, <<"b">>}
WideTopKs == {1, 2}
\* the filter_type of a request's arguments: left out, a category, or anything else
FilterArgs == {"absent", "all", "code", "documentation", "bogus"}

\* arguments.get("filter_type", "all")
GetFilterType(a) == IF a = "absent" THEN "all" ELSE a

\* the enum of filter_type in search_codebase's inputSchema; list_indexed_files'
\* schema has none
SchemaFilters == {"all", "documentation", "code", "schemas", "config"}

\* @app.call_tool(): an MCP library that validates the arguments against the
\* inputSchema answers a search whose filter_type is not of the enum with an error,
\* without calling call_tool; one that does not validate calls it (SearchStart)
RejectSearch(q, k, a) ==
    /\ Ready /\ LoopFree /\ nReq < MaxRequests
    /\ a \notin SchemaFilters \cup {"absent"}
    /\ req' = [NoReq EXCEPT !.op = "search", !.pc = "done", !.query = q, !.top_k = k,
                            !.filter_type = a, !.outcome = "error"]
    /\ nReq' = nReq + 1
    /\ UNCHANGED <<configVars, chunkerVars, diskVars, files_index, listVars, vsIndex, pc, loc, hist>>

PassInit ==
    /\ chunk_size = CfgChunkSize
    /\ chunk_overlap = CfgChunkOverlap
    /\ content = <<>>
    /\ out = NoResult
    /\ disk \in Trees
    /\ ServerStart

\* the tree changes while initialize() indexes it
DiskChangeDuringPass(p, file) == ~Ready /\ DiskChange(p, file)

NextPass ==
    \/ Glob(0) \/ OpenFile(0) \/ StoreFile(0) \/ Extend(0)
    \/ BootVectorStore \/ BuildChunks(0)
    \/ Encode(0) \/ EncodeFault(0) \/ NewIndex(0) \/ Add(0)
    \/ Respond(0) \/ Fail(0)
    \/ \E q \in WideQueries, k \in WideTopKs, a \in FilterArgs : SearchStart(q, k, GetFilterType(a))
    \/ \E q \in WideQueries, k \in WideTopKs, a \in FilterArgs : RejectSearch(q, k, a)
    \/ SearchCheck \/ SearchQuery \/ SearchHit
    \/ \E a \in FilterArgs : ListFiles(GetFilterType(a))
    \/ Return
    \/ \E p \in Paths : \E file \in MayHold(p) : DiskChangeDuringPass(p, file)

SpecPass == PassInit /\ [][NextPass]_vars

(***************************************************************************)
(* The server on a tree whose code file has several lines that score       *)
(* higher than every documentation chunk: initialize() on a tree that does *)
(* not change, then search requests with every argument.                    *)
(***************************************************************************)
BytesLong == <<"b", "b", NL, "b", "b", NL, "b", "b">>
SearchTrees == {[t EXCEPT ![PathB] = File(BytesLong)] : t \in Trees}

SearchInit ==
    /\ chunk_size = CfgChunkSize
    /\ chunk_overlap = CfgChunkOverlap
    /\ content = <<>>
    /\ out = NoResult
    /\ disk \in SearchTrees
    /\ ServerStart

NextSearch ==
    \/ Glob(0) \/ OpenFile(0) \/ StoreFile(0) \/ Extend(0)
    \/ BootVectorStore \/ BuildChunks(0)
    \/ Encode(0) \/ NewIndex(0) \/ Add(0)
    \/ Respond(0)
    \/ \E q \in WideQueries, k \in WideTopKs, a \in FilterArgs : SearchStart(q, k, GetFilterType(a))
    \/ \E q \in WideQueries, k \in WideTopKs, a \in FilterArgs : RejectSearch(q, k, a)
    \/ SearchCheck \/ SearchQuery \/ SearchHit
    \/ Return

SpecSearch == SearchInit /\ [][NextSearch]_vars

(***************************************************************************)
(* The chunker alone: _create_chunks on every short text, for every small  *)
(* chunk_size and chunk_overlap.                                            *)
(***************************************************************************)
ChunkerInit ==
    /\ chunk_size \in 1..MaxChunkSize
    /\ chunk_overlap \in 0..MaxOverlap
    /\ content \in TextsUpTo(MaxLen)
    /\ out = NoResult
    /\ ServerInit

\* chunks = self._create_chunks(content, rel_path, file_type)
RunCreateChunks ==
    /\ out = NoResult
    /\ out' = [done |-> TRUE, chunks |-> CreateChunks(content, PathA, "documentation")]
    /\ UNCHANGED <<configVars, content, serverVars>>

ChunkerNext == RunCreateChunks

SpecChunker == ChunkerInit /\ [][ChunkerNext]_vars

(***************************************************************************)
(* Properties of the chunker, checked under SpecChunker.                    *)
(***************************************************************************)
ChunkLines(k) == Split(out.chunks[k].content)

\* C7: every chunk's content (its lines joined with newlines) is at most chunk_size
\* characters long, unless one line of the chunk is by itself longer than chunk_size.
C7_ChunkLengthBounded ==
    out.done =>
        \A k \in 1..Len(out.chunks) :
            \/ Len(out.chunks[k].content) <= chunk_size
            \/ \E i \in 1..Len(ChunkLines(k)) : Len(ChunkLines(k)[i]) > chunk_size

\* the lines of chunk k that were re-seeded from chunk k - 1
LeadingOverlap(k) ==
    IF k = 1 THEN <<>> ELSE OverlapLines(ChunkLines(k - 1), chunk_overlap)

\* the lines of chunk k without its leading overlap lines
UniqueSpan(k) == SubSeq(ChunkLines(k), Len(LeadingOverlap(k)) + 1, Len(ChunkLines(k)))

RECURSIVE SpansUpTo(_)
SpansUpTo(k) == IF k = 0 THEN <<>> ELSE SpansUpTo(k - 1) \o UniqueSpan(k)

\* C8: the chunks' lines without their leading overlap lines, concatenated in chunk
\* order, are exactly the lines of the file, each once and in order.
C8_RoundTrip ==
    out.done => SpansUpTo(Len(out.chunks)) = Split(content)

\* C8's case: a chunk that starts with lines re-seeded from the chunk before it
C8_Witness ==
    /\ out.done
    /\ \E k \in 2..Len(out.chunks) : LeadingOverlap(k) # <<>>

\* C9: a file whose content is shorter than chunk_size yields exactly one chunk, and
\* that chunk's content is the whole file content.
C9_ShortFileOneChunk ==
    (out.done /\ Len(content) < chunk_size) =>
        /\ Len(out.chunks) = 1
        /\ out.chunks[1].content = content

\* C9's case: a file of several lines that is shorter than chunk_size has been chunked
C9_Witness ==
    /\ out.done
    /\ Len(content) < chunk_size
    /\ Len(Split(content)) > 1

\* C10: chunking an empty file produces zero chunks.
C10_EmptyFileNoChunks ==
    (out.done /\ content = <<>>) => Len(out.chunks) = 0

\* C11: with chunk_overlap = 0 no line occurrence belongs to two consecutive chunks:
\* the overlap window seeded after each emitted chunk is empty, also when the
\* emitted chunk ends with blank lines.
C11_ZeroOverlapSharesNothing ==
    (out.done /\ chunk_overlap = 0) =>
        \A k \in 2..Len(out.chunks) : LeadingOverlap(k) = <<>>

IsPrefix(p, ls) == Len(p) <= Len(ls) /\ SubSeq(ls, 1, Len(p)) = p
IsSuffix(p, ls) == Len(p) <= Len(ls) /\ SubSeq(ls, Len(ls) - Len(p) + 1, Len(ls)) = p

\* C12: with chunk_overlap > 0 every chunk after the first begins with the overlap
\* window, the window is a suffix of the previous chunk's lines in their order, and
\* the window, as the text the two chunks share, is at most chunk_overlap characters.
C12_OverlapWindowBounded ==
    (out.done /\ chunk_overlap > 0) =>
        \A k \in 2..Len(out.chunks) :
            /\ IsPrefix(LeadingOverlap(k), ChunkLines(k))
            /\ IsSuffix(LeadingOverlap(k), ChunkLines(k - 1))
            /\ Len(Join(LeadingOverlap(k))) <= chunk_overlap

\* the window is bounded in the code's own measure: the sum of its lines' lengths
OverlapWindowLinesBounded ==
    out.done =>
        \A k \in 2..Len(out.chunks) :
            /\ IsPrefix(LeadingOverlap(k), ChunkLines(k))
            /\ IsSuffix(LeadingOverlap(k), ChunkLines(k - 1))
            /\ SumLen(LeadingOverlap(k)) <= chunk_overlap

RECURSIVE UniqueLinesUpTo(_)
\* how many lines the first k chunks hold outside their overlap windows
UniqueLinesUpTo(k) == IF k = 0 THEN 0 ELSE UniqueLinesUpTo(k - 1) + Len(UniqueSpan(k))

\* C20: for every chunk_size >= 1 and chunk_overlap >= 0, chunk_overlap >= chunk_size
\* included, chunking a file of N lines ends having consumed each line once (the
\* chunks hold N lines outside their overlap windows), emits at most N chunks, and
\* every chunk after the first holds at least one line that is not of its window.
C20_EachLineOnceAtMostNChunks ==
    out.done =>
        /\ UniqueLinesUpTo(Len(out.chunks)) = Len(Split(content))
        /\ Len(out.chunks) <= Len(Split(content))
        /\ \A k \in 2..Len(out.chunks) : UniqueSpan(k) # <<>>

\* C20's case: chunk_overlap >= chunk_size, and a window that is the whole chunk before
C20_Witness ==
    /\ out.done
    /\ chunk_overlap >= chunk_size
    /\ \E k \in 2..Len(out.chunks) :
          LeadingOverlap(k) = ChunkLines(k - 1) /\ Len(ChunkLines(k - 1)) > 1

(***************************************************************************)
(* Properties of the server.                                                *)
(***************************************************************************)
VsChunkList == heap[vsChunks]
IxChunkList == heap[ixChunks]
PathsOf(records) == {info.path : info \in records}
\* the paths a list request for 'all' returns in this state
Listable == PathsOf(GetIndexedFiles("all"))
SearchDone == req.op = "search" /\ req.pc = "done"
ListDone == req.op = "list" /\ req.pc = "done"
\* handler h is the last reindex request that has arrived
Latest(h) == h = MaxReindex \/ pc[h + 1] = "idle"
\* the pass of handler g has gone through all its patterns
PassOver(g) == pc[g] \notin {"idle", "clear_chunks", "clear_files", "glob", "file", "store", "extend"}

\* C1: a search or list request that runs while a reindex runs sees one generation:
\* every chunk a search returns has a FileRecord with its path in the registry a
\* list can return then, and a list returns the registry of one whole index pass,
\* never a partially filled one.
C1_OneGeneration ==
    /\ SearchDone =>
          \A i \in 1..Len(req.results) : req.results[i].file_path \in Listable
    /\ (ListDone /\ req.filter_type = "all") =>
          \E g \in Handlers : PassOver(g) /\ PathsOf(req.listed) = hist[g].stored

\* handler h is between rebuild's 'discard old' and build's 'load new'
InRebuildWindow(h) == pc[h] \in {"rb_chunks", "build", "encode", "new_index", "add"}

\* C2: while a rebuild that replaces a non-empty generation by a non-empty chunk set
\* is between discarding the old and loading the new, no search (filter 'all')
\* returns an empty list or raises.
C2_SearchNeverSeesGap ==
    \A h \in Reindexers :
        (InRebuildWindow(h) /\ hist[h].oldN > 0 /\ Len(heap[arg[h]]) > 0) =>
            ~(SearchDone /\ req.filter_type = "all" /\ req.outcome \in {"empty", "error"})

\* C3: whenever the server is serving, the index holds as many vectors as the chunk
\* list holds chunks, vector i is the embedding of chunk i, and so the score a search
\* reports with a chunk is the similarity of the query and that chunk.
C3_PositionalCorrespondence ==
    Ready =>
        /\ NumVectors = Len(VsChunkList)
        /\ \A i \in 1..NumVectors : vsIndex.vectors[i] = Embed(VsChunkList[i].content)
        /\ SearchDone =>
              \A i \in 1..Len(req.results) :
                  req.results[i].score =
                      InnerProduct(Embed(req.query), Embed(req.results[i].content))

\* C4: at most one reindex request is in flight at any time.
C4_OneReindexAtATime ==
    Cardinality({h \in Reindexers : InFlight(h)}) <= 1

\* the registry, the chunk list and the vectors are one generation
OneUnit ==
    /\ NumVectors = Len(VsChunkList)
    /\ \A i \in 1..NumVectors : vsIndex.vectors[i] = Embed(VsChunkList[i].content)
    /\ VsChunkList = IxChunkList
    /\ {IxChunkList[i].file_path : i \in 1..Len(IxChunkList)} \subseteq DOMAIN files_index

\* C5: after a reindex request has failed partway and returned its error result, the
\* registry, the chunk list and the vectors are one generation.
C5_FailedReindexLeavesUnit ==
    \A h \in Reindexers : (pc[h] = "failed" /\ Latest(h)) => OneUnit

\* the reindex pass of handler h has completed and nothing has run since
Completed(h) == pc[h] = "done" /\ Latest(h) /\ ~hist[h].overlapped

\* C6 as stated: after a reindex that no other reindex overlapped has completed,
\* list('all') returns exactly the files that pass discovered, did not exclude and
\* read as text.
C6_ListingIsFilesRead ==
    \A h \in Reindexers : Completed(h) => Listable = hist[h].read

\* C6, amended: after a reindex that no other reindex overlapped has completed,
\* list('all') returns exactly the files that pass discovered, did not exclude, read
\* as text and found still present when it read their modification time; so a file
\* of the registry before the reindex that is no longer on disk is not listed.
C6_ListingIsFilesStored ==
    \A h \in Reindexers :
        Completed(h) =>
            /\ Listable = hist[h].stored
            /\ hist[h].stored \subseteq hist[h].read
            /\ (ListDone /\ req.filter_type = "all") => PathsOf(req.listed) = hist[h].stored

\* C6's case: a list('all') answered after a completed reindex, without a file that
\* was in the registry before the reindex and is no longer on disk
C6_Witness ==
    \E h \in Reindexers :
        /\ Completed(h)
        /\ ListDone /\ req.filter_type = "all" /\ req.listed # {}
        /\ \E p \in hist[h].before : ~disk[p].exists /\ p \notin PathsOf(req.listed)

\* between requests, after a reindex that completed, the triple is one generation
QuiescentUnit ==
    \A h \in Reindexers : (pc[h] = "done" /\ Latest(h)) => OneUnit

\* C14: when the most recent build or rebuild was given zero chunks, a search that
\* follows it returns an empty list and raises no error, whether or not a non-empty
\* index had been built before.
C14_EmptyCorpusSearchEmpty ==
    \A h \in Handlers :
        (pc[h] = "done" /\ Latest(h) /\ hist[h].given = "empty" /\ SearchDone) =>
            req.outcome = "empty" /\ req.results = <<>>

\* C14's case: a search answered after a rebuild that was given zero chunks and
\* replaced a non-empty index
C14_Witness ==
    \E h \in Reindexers :
        /\ pc[h] = "done" /\ Latest(h)
        /\ hist[h].given = "empty" /\ hist[h].oldN > 0
        /\ SearchDone /\ req.outcome = "empty"

\* the paths of the chunks in the indexer's accumulator
ChunkPaths == {IxChunkList[i].file_path : i \in 1..Len(IxChunkList)}

Quiescent == \A h \in Handlers : ~InFlight(h)

\* C13: a search against a quiescent index, for any query, top_k >= 1 and filter,
\* returns at most top_k results, each of the filter's category unless the filter
\* is 'all', in non-increasing order of score.
C13_SearchResultsBounded ==
    (SearchDone /\ Quiescent /\ req.top_k >= 1) =>
        /\ Len(req.results) <= req.top_k
        /\ req.filter_type # "all" =>
              \A i \in 1..Len(req.results) : req.results[i].file_type = req.filter_type
        /\ \A i \in 1..Len(req.results) : \A j \in i..Len(req.results) :
              req.results[i].score >= req.results[j].score

\* C13's case: a filtered search that filled its top_k = 2 with results of different
\* scores, over an index that also holds a matching chunk of another category
C13_Witness ==
    /\ SearchDone /\ Quiescent
    /\ req.top_k = 2 /\ Len(req.results) = 2 /\ req.filter_type = "code"
    /\ req.results[1].score > req.results[2].score
    /\ \E i \in 1..Len(VsChunkList) :
          /\ VsChunkList[i].file_type = "documentation"
          /\ InnerProduct(Embed(req.query), Embed(VsChunkList[i].content)) >= req.results[2].score

\* the filters that name 'all' or a configured category
ValidFilters == FileTypes \cup {"all"}

\* what the search of req returns for the filter 'all' from the index as it is
ResultsForAll ==
    LET hits == IndexSearch(vsIndex.vectors, Embed(req.query),
                            Min(req.top_k * OverFetch, NumVectors))
    IN [i \in 1..Min(req.top_k, Len(hits)) |->
          WithScore(VsChunkList[hits[i].idx], hits[i].score)]

\* C16: a search or list request whose filter is absent or names no configured
\* category is answered exactly as for 'all' or with an error, never as a category
\* that matches nothing.
C16_InvalidFilterAllOrRejected ==
    /\ (SearchDone /\ Quiescent /\ req.filter_type \notin ValidFilters) =>
          req.outcome = "error" \/ req.results = ResultsForAll
    /\ (ListDone /\ Quiescent /\ req.filter_type \notin ValidFilters) =>
          req.outcome = "error" \/ req.listed = GetIndexedFiles("all")

(***************************************************************************)
(* Properties of one index pass: index_all run by initialize() or by a     *)
(* reindex request that no other reindex request overlapped.                *)
(***************************************************************************)
\* the index pass of handler h has returned and no later pass has begun
PassCompleted(h) ==
    /\ PassOver(h) /\ Latest(h) /\ ~hist[h].overlapped
    /\ pc[h] \notin {"raised", "failed", "crashed"}

\* C17: after a completed index pass every chunk's category and language are those
\* of the FileRecord registered under the chunk's path, also for a file that matches
\* patterns of two categories.
C17_ChunkInheritsFromRecord ==
    \A h \in Handlers :
        PassCompleted(h) =>
            \A i \in 1..Len(IxChunkList) :
                /\ IxChunkList[i].file_path \in DOMAIN files_index
                /\ IxChunkList[i].file_type = files_index[IxChunkList[i].file_path].type
                /\ IxChunkList[i].language = files_index[IxChunkList[i].file_path].language

\* the contents of the accumulator's chunks of file p, in order
ContentsOf(p) ==
    LET own == SelectSeq(IxChunkList, LAMBDA c : c.file_path = p)
    IN [i \in 1..Len(own) |-> own[i].content]

\* C18: within one index pass each file is chunked once: the accumulator holds, for
\* each file, the chunk sequence of one content of the file, a single time, also for
\* a file that matches several patterns.
C18_FileChunkedOnce ==
    \A h \in Handlers :
        PassCompleted(h) =>
            \A p \in ChunkPaths :
                \E f \in MayHold(p) :
                    /\ f.exists /\ Decodable(f.bytes)
                    /\ ContentsOf(p) = ChunkContents(f.bytes, chunk_size, chunk_overlap)

\* the statistics the pass of handler h returned
StatsOf(h) == loc[h].stats

\* C19: the statistics an index pass returns agree with the state it leaves:
\* files_indexed is the number of FileRecords, chunks_created the length of the
\* chunk list, and the per-category counts sum to files_indexed, also when files
\* fail to decode or fail after they were read.
C19_StatsAgreeWithState ==
    \A h \in Handlers :
        PassCompleted(h) =>
            /\ StatsOf(h).files_indexed = Cardinality(DOMAIN files_index)
            /\ StatsOf(h).chunks_created = Len(IxChunkList)
            /\ SumOver(StatsOf(h).by_type, FileTypes) = StatsOf(h).files_indexed

(***************************************************************************)
(* Properties of search on a quiescent index, checked under SpecSearch.     *)
(***************************************************************************)
\* the min(3 * k, n) nearest neighbours of the query of req, nearest first
Candidates == IndexSearch(vsIndex.vectors, Embed(req.query), Min(3 * req.top_k, NumVectors))

\* the candidates that have a chunk and whose chunk passes the filter of req, in
\* the same order
MatchingCandidates ==
    SelectSeq(Candidates,
              LAMBDA h : /\ h.idx <= Len(VsChunkList)
                         /\ \/ req.filter_type = "all"
                            \/ VsChunkList[h.idx].file_type = req.filter_type)

\* the first k of the matching candidates, all of them if there are fewer
FirstMatches ==
    [i \in 1..Min(req.top_k, Len(MatchingCandidates)) |->
        WithScore(VsChunkList[MatchingCandidates[i].idx], MatchingCandidates[i].score)]

\* an answered search of a quiescent index that holds vectors
SearchAnswered ==
    SearchDone /\ req.outcome # "error" /\ Quiescent /\ ~vsIndex.is_none /\ NumVectors > 0

\* C21: against a quiescent index of n > 0 vectors, search(query, k, filter)
\* returns exactly the first k filter-matching chunks (all of them if fewer) among
\* the min(3 * k, n) nearest neighbours taken in descending similarity; with the
\* filter 'all' that is min(k, n) results, and no chunk ranked beyond 3 * k is
\* returned even when fewer than k matches were collected.
C21_FirstMatchesOfCandidates ==
    SearchAnswered =>
        /\ req.results = FirstMatches
        /\ req.filter_type = "all" => Len(req.results) = Min(req.top_k, NumVectors)
        /\ \A i \in 1..Len(req.results) :
              \E j \in 1..Min(3 * req.top_k, Len(Candidates)) :
                  /\ Candidates[j].idx <= Len(VsChunkList)
                  /\ req.results[i] = WithScore(VsChunkList[Candidates[j].idx], Candidates[j].score)

\* a search for one documentation chunk that came back empty although a
\* documentation chunk that shares a letter with the query is indexed, ranked
\* beyond the three candidates
C21_Witness ==
    /\ SearchAnswered
    /\ req.top_k = 1 /\ req.filter_type = "documentation"
    /\ NumVectors > 3 * req.top_k
    /\ req.results = <<>>
    /\ \E i \in 1..NumVectors :
          /\ VsChunkList[i].file_type = "documentation"
          /\ InnerProduct(vsIndex.vectors[i], Embed(req.query)) > 0
====
